---------------------------- MODULE Spec2Model ----------------------------
(***************************************************************************)
(* Model of the image-understanding pipeline of LLM_API_BD:                *)
(*   - QianfanAppBuilderAPI (appBuilder_api.py): the remote session client *)
(*     with its retry wrapper around the transport call;                   *)
(*   - ImageProcessor / StrictImageProcessor (download_image.py): the      *)
(*     content resolver in marker mode and in in-place mode.               *)
(* Every transport attempt is one step; the remote service and the image   *)
(* host are the environment and answer nondeterministically.               *)
(* Specifications: Spec (the client driven directly), SpecResolver (a run  *)
(* of process_content in either mode), SpecNorm (validity normalization),  *)
(* SpecMarker (marker substitution in the content text), SpecTree (the     *)
(* traversal of the document and the in-place substitution), SpecConvert   *)
(* (_convert_to_jpg on the files), SpecStage (one reference from its fetch *)
(* to the understanding call, on the files), SpecOrder (marker             *)
(* substitution for two images in either order).                           *)
(***************************************************************************)
EXTENDS Integers, Sequences, FiniteSets, TLC

\* ------------------------------------------------------------------ bounds
\* Largest retry_count a client is constructed with.
MaxRetry == 3
\* Largest number of image references of one document.
MaxRefs == 2
\* Largest retry_count of the client a resolver is constructed with.
MaxResolverRetry == 1
\* Longest validity-flag string drawn from FlagAlphabet.
MaxFlagLen == 2
\* Longest content text, in tokens.
MaxTokens == 2
\* Deepest nesting of containers in a document: 1 is a flat map or list.
MaxNest == 2
\* How many times in a row _convert_to_jpg is applied.
MaxConversions == 2

\* --------------------------------------------------------------- constants
\* Python's None, and the empty string (falsy like None, but not None).
None == "None"
EmptyStr == ""
\* bool(x) of an optional string.
Truthy(x) == x \notin {None, EmptyStr}

\* self.retry_status_codes
retry_status_codes == {500, 424}
\* Status codes the remote service answers with.
Statuses == {200, 404, 424, 500}
\* min_size_kb (the constructors' default) and self.min_size_bytes.
min_size_kb == 30
min_size_bytes == min_size_kb * 1024
\* Byte sizes a staged file may have: below the gate, and exactly at it.
SizeChoices == {10 * 1024, min_size_bytes}
\* Session ids and asset ids the remote service hands out.
ConvIds == {"c1", "c2"}
FileIds == {"f1"}

\* ------------------------------------------------------------- the payloads
\* The answers the understanding service may give, by name. AnswerTable gives
\* the shape of each: whether the text holds a ```json fenced block, whether
\* the block parses, whether the parsed map holds the key "is_valid", and the
\* value found under it.
Flag(t, b, s, n) == [t |-> t, b |-> b, s |-> s, n |-> n]
FlagBool(b) == Flag("bool", b, <<>>, 0)
FlagStr(s) == Flag("str", FALSE, s, 0)
FlagInt(n) == Flag("int", FALSE, <<>>, n)
FlagFloat == Flag("float", FALSE, <<>>, 0)
FlagNone == Flag("none", FALSE, <<>>, 0)
FlagList == Flag("list", FALSE, <<>>, 0)
FlagMap == Flag("map", FALSE, <<>>, 0)

AnswerNames == {"plain", "malformed", "nokey", "v_true", "v_false", "v_Yes", "v_no", "v_one"}
Answer(block, haskey, flag) == [block |-> block, haskey |-> haskey, flag |-> flag]
AnswerTable ==
    [a \in AnswerNames |->
        CASE a = "plain"     -> Answer("absent", FALSE, FlagNone)
          [] a = "malformed" -> Answer("malformed", FALSE, FlagNone)
          [] a = "nokey"     -> Answer("map", FALSE, FlagNone)
          [] a = "v_true"    -> Answer("map", TRUE, FlagBool(TRUE))
          [] a = "v_false"   -> Answer("map", TRUE, FlagBool(FALSE))
          [] a = "v_Yes"     -> Answer("map", TRUE, FlagStr(<<"Y", "e", "s">>))
          [] a = "v_no"      -> Answer("map", TRUE, FlagStr(<<"n", "o">>))
          [] a = "v_one"     -> Answer("map", TRUE, FlagInt(1))]

\* A response body. json = FALSE: response.json() raises. Fields a request does
\* not return are None.
Body(json, cid, fid, answer) ==
    [json |-> json, conversation_id |-> cid, id |-> fid, answer |-> answer]
NoBody == Body(FALSE, None, None, None)
Bodies(u) ==
    CASE u = "create" -> {Body(TRUE, c, None, None) : c \in ConvIds \cup {None, EmptyStr}}
                         \cup {NoBody}
      [] u = "upload" -> {Body(TRUE, c, f, None) : c \in ConvIds \cup {None}, f \in FileIds \cup {None}}
                         \cup {NoBody}
      [] u = "run"    -> {Body(TRUE, None, None, a) : a \in AnswerNames \cup {None}}
                         \cup {NoBody}

\* What requests.request gives on one attempt: a response or an exception.
Resp(kind, status, body) == [kind |-> kind, status |-> status, body |-> body]
Exc == Resp("exc", 0, NoBody)
NoResponse == Resp("none", 0, NoBody)
Outcomes(u) ==
    {Resp("resp", 200, b) : b \in Bodies(u)}
    \cup {Resp("resp", s, NoBody) : s \in Statuses \ {200}}
    \cup {Exc}

\* The value an operation returns: create_conversation returns cid,
\* upload_file returns (fid, cid), run_app_api returns payload (ok) or None.
Result(ok, cid, fid, payload) == [ok |-> ok, cid |-> cid, fid |-> fid, payload |-> payload]
ResultNone == Result(FALSE, None, None, NoBody)

\* The content text as tokens: free text, a marker {{name}}, or what was
\* substituted for one: describe_string followed by the answer named answer,
\* verbatim (esc = "none") or with its backslash escapes expanded.
Token(t, name, answer, esc) == [t |-> t, name |-> name, answer |-> answer, esc |-> esc]
Text == Token("text", 0, None, "none")
Marker(n) == Token("marker", n, None, "none")
Description(a, e) == Token("description", 0, a, e)
\* The same for an answer whose text holds the marker {{m}} of another image,
\* and what becomes of it when that marker is replaced in its turn.
DescriptionWith(a, e, m) == Token("description", m, a, e)
Altered(tok) == Token("altered", tok.name, tok.answer, tok.esc)
\* The backslashes of an answer text, as re.sub reads them in a replacement:
\* none; escapes it expands (\n, \\, \g<0>); one it rejects (\u, \1).
Escapes == {"none", "expanded", "rejected"}
\* The result process_content took: whether it held an answer, which one, and
\* the backslashes of its text.
Taken(ok, a, e) == [ok |-> ok, answer |-> a, esc |-> e]
NotTaken == Taken(FALSE, None, "none")

\* A document is a tree of nodes: a dict (kids: entries of key and node, in
\* insertion order), a list (kids: entries of node, the key unused), a str
\* scalar (v: its value) or a scalar of another type. Keys and paths are
\* strings spelled out as sequences of characters.
Node(t, v, kids) == [t |-> t, v |-> v, kids |-> kids]
Entry(key, node) == [key |-> key, node |-> node]
Str(v) == Node("str", v, <<>>)
Other == Node("other", "", <<>>)
Dict(kids) == Node("dict", "", kids)
List(kids) == Node("list", "", kids)
Item(node) == Entry(<<>>, node)
\* Strings that match image_url_reg, one that does not, and the answer text.
Urls == {"u1", "u2"}
PlainText == "txt"
AnswerText == "A"

\* A file path: directory, name without extension, extension.
Path(dir, stem, ext) == [dir |-> dir, stem |-> stem, ext |-> ext]
NoPath == Path("", "", "")
Dirs == {"images", "tmp"}
Paths == {Path(d, "k_1", x) : d \in Dirs, x \in {"png", "jpg"}}
\* What Image.open finds in a file: its format, or "unknown" when it is not
\* an image it can read.
FileFormats == {"PNG", "JPEG", "GIF", "unknown"}
\* What _convert_to_jpg gives: (status, path), or an exception.
Return(status, path) == [status |-> status, path |-> path]
NotConverted == Return("none", NoPath)

\* ------------------------------------------------------------------- state
VARIABLES
    \* QianfanAppBuilderAPI
    conversation_id,    \* self.conversation_id
    retry_count,        \* self.retry_count
    pc,                 \* "idle" | "req" (inside _make_request) | "resp" (it returned)
    op,                 \* the operation the caller invoked: create | upload | run
    url,                \* the request _make_request is sending: create | upload | run
    file_arg,           \* run_app_api's file_id argument
    current_retry,      \* _make_request's current_retry
    attempts,           \* transport attempts of the current _make_request
    transients,         \* how many of them answered 500 or 424
    excs,               \* how many of them raised
    retry_logs,         \* "Retrying (i/n)" lines logged by the current _make_request
    last,               \* outcome of the latest attempt
    response,           \* what _make_request returned
    result,             \* what the operation returned
    held_at_call,       \* self.conversation_id when the caller invoked the operation
    trace,              \* calls and requests since the caller turned to a new task
    \* ImageProcessor / StrictImageProcessor
    mode,               \* api: no resolver | marker: ImageProcessor | inplace: StrictImageProcessor
    valid_response_key, \* self.valid_response_key
    nrefs,              \* references of the document: image_links, url_paths
    rpc,                \* where process_content is
    idx,                \* position of the loop it is in
    cur,                \* the reference being worked on, 0 when none
    assets,             \* per reference: bytes fetched and bytes staged at the size gate
    saved_files,        \* _download_images' saved_files, as the references saved
    staged,             \* the references whose staging file exists on disk
    ciu_conversation_id,\* _call_image_understanding's local conversation_id
    resolved,           \* references substituted into the document
    verdict,            \* what it did with the latest result: substitute | skip | KeyError
    ret,                \* what process_content gave its caller
    \* validity normalization on its own
    valid_flag,         \* the value found under valid_response_key
    should_process,     \* what it normalized to, "unset" before
    \* marker substitution on its own
    org_content,        \* page_info.content_text, as tokens
    new_content,        \* new_content
    taken,              \* the answer process_content took last, and its backslashes
    answers,            \* per image name, the answer the service gives for it
    \* the document tree of StrictImageProcessor
    json_dict,          \* json_dict, mutated in place
    process_black_key,  \* self.process_black_key
    recursive_depth,    \* self.recursive_depth
    all_fields,         \* all_fields: what _traverse_dict returned
    warned,             \* where _traverse_dict logged that the depth was exceeded
    url_paths,          \* url_paths, in insertion order
    \* _convert_to_jpg on the file system
    files,              \* per path: the format of the file there, or "absent"
    source_file_path,   \* source_file_path
    target_file_path,   \* target_file_path, a directory
    converted,          \* what _convert_to_jpg returned last
    conversions         \* how many times it was applied

clientVars == <<conversation_id, retry_count, pc, op, url, file_arg, current_retry,
                attempts, transients, excs, retry_logs, last, response, result, held_at_call, trace>>

resolverVars == <<mode, valid_response_key, nrefs, rpc, idx, cur, assets, saved_files, staged,
                  ciu_conversation_id, resolved, verdict, ret>>

normVars == <<valid_flag, should_process>>

\* The client's variables but the trace.
clientRest == <<conversation_id, retry_count, pc, op, url, file_arg, current_retry,
                attempts, transients, excs, retry_logs, last, response, result, held_at_call>>

\* The variables of the content text.
textVars == <<org_content, new_content, taken, answers>>

\* The variables of the document tree.
treeVars == <<json_dict, process_black_key, recursive_depth, all_fields, warned, url_paths>>

\* The variables of the file system.
fileVars == <<files, source_file_path, target_file_path, converted, conversions>>

\* The variables of the document side: text, tree and files.
docVars == <<textVars, treeVars, fileVars>>

\* What the client and the resolver leave alone.
sideVars == <<normVars, docVars>>

vars == <<clientVars, resolverVars, normVars, docVars>>

\* An entry of the trace: a call of an operation or the first attempt of a
\* request, the conversation_id the request carries, the reference it is for.
Event(ev, cid, r) == [ev |-> ev, cid |-> cid, ref |-> r]

\* ------------------------------------------- QianfanAppBuilderAPI: requests
\* The conversation_id the request of kind u carries in its payload.
SentCid(u) ==
    CASE u = "create" -> None
      [] u = "upload" -> IF Truthy(conversation_id) THEN conversation_id ELSE None
      [] u = "run"    -> conversation_id

\* Entry of _make_request: current_retry = 0, nothing sent yet.
StartRequest(u) ==
    /\ pc' = "req"
    /\ url' = u
    /\ current_retry' = 0
    /\ attempts' = 0
    /\ transients' = 0
    /\ excs' = 0
    /\ retry_logs' = 0
    /\ last' = NoResponse
    /\ response' = NoResponse

\* Faults of the retry conditions: a budget one short, a retry of every error
\* status, and an exception budget one long.
RetryOnStatus_OneShort(status, cr, rc) == status \in retry_status_codes /\ cr + 1 < rc
RetryOnStatus_AnyError(status, cr, rc) == status # 200 /\ cr < rc
RetryOnException_OneMore(cr, rc) == cr <= rc

\* Line 71: a transient status is retried while the budget lasts.
RetryOnStatus(status, cr, rc) == status \in retry_status_codes /\ cr < rc

\* Line 87: an exception is retried while the same budget lasts.
RetryOnException(cr, rc) == cr < rc

\* One iteration of _make_request's loop: one transport attempt and what the
\* wrapper does with its outcome (retry, or return a response or None).
_make_request ==
    /\ pc = "req"
    /\ \E out \in Outcomes(url) :
        LET retry == IF out.kind = "exc"
                     THEN RetryOnException(current_retry, retry_count)
                     ELSE RetryOnStatus(out.status, current_retry, retry_count)
        IN  /\ attempts' = attempts + 1
            /\ transients' = IF out.kind = "resp" /\ out.status \in {500, 424}
                             THEN transients + 1 ELSE transients
            /\ excs' = IF out.kind = "exc" THEN excs + 1 ELSE excs
            /\ last' = out
            /\ trace' = IF attempts = 0
                        THEN Append(trace, Event("send_" \o url, SentCid(url), cur))
                        ELSE trace
            /\ current_retry' = IF retry THEN current_retry + 1 ELSE current_retry
            /\ retry_logs' = IF retry THEN retry_logs + 1 ELSE retry_logs
            /\ pc' = IF retry THEN "req" ELSE "resp"
            /\ response' = IF retry \/ out.kind = "exc" THEN NoResponse ELSE out
    /\ UNCHANGED <<conversation_id, retry_count, op, url, file_arg, result, held_at_call>>
    /\ UNCHANGED <<resolverVars, sideVars>>

\* "response and response.status_code == 200", then response.json() parses.
Success(r) == r.kind = "resp" /\ r.status = 200 /\ r.body.json

\* ---------------------------------------- QianfanAppBuilderAPI: operations
\* create_conversation, lines 129-138: what it returns, and what it leaves in
\* self.conversation_id.
CreateResult(r) ==
    IF Success(r) THEN Result(TRUE, r.body.conversation_id, None, r.body) ELSE ResultNone
CreateHeld(r, held) ==
    IF Success(r) THEN r.body.conversation_id ELSE held

\* Fault: the server's session id is taken only when the client holds none.
UploadHeld_KeepOwn(r, held) ==
    IF Success(r) /\ Truthy(r.body.conversation_id) /\ ~Truthy(held)
    THEN r.body.conversation_id ELSE held

\* upload_file, lines 181-194.
UploadResult(r) ==
    IF Success(r) THEN Result(TRUE, r.body.conversation_id, r.body.id, r.body) ELSE ResultNone
UploadHeld(r, held) ==
    IF Success(r) /\ Truthy(r.body.conversation_id) THEN r.body.conversation_id ELSE held

\* run_app_api, lines 237-245.
RunResult(r) ==
    IF Success(r) THEN Result(TRUE, None, None, r.body) ELSE ResultNone

\* Fault: the 200 of create_conversation is taken for a conversation_id.
CreateSucceeded_ByStatus(res) == res.ok

\* Fault: run_app_api creates a conversation on every call.
NeedsConversation_Always(held) == TRUE

\* Line 209: "if not self.create_conversation()", on the value it returned.
CreateSucceeded(res) == Truthy(res.cid)

\* Line 208: run_app_api creates a conversation when it holds none.
NeedsConversation(held) == ~Truthy(held)

\* The caller invokes create_conversation (lines 118-128).
CallCreate(tr, r) ==
    /\ pc = "idle"
    /\ op' = "create"
    /\ file_arg' = None
    /\ held_at_call' = conversation_id
    /\ trace' = Append(tr, Event("call_create", None, r))
    /\ StartRequest("create")
    /\ UNCHANGED <<conversation_id, retry_count, result>>

\* The caller invokes upload_file (lines 154-177).
CallUpload(tr, r) ==
    /\ pc = "idle"
    /\ op' = "upload"
    /\ file_arg' = None
    /\ held_at_call' = conversation_id
    /\ trace' = Append(tr, Event("call_upload", None, r))
    /\ StartRequest("upload")
    /\ UNCHANGED <<conversation_id, retry_count, result>>

\* The caller invokes run_app_api (lines 207-233): with no conversation held
\* it calls create_conversation first.
CallRun(tr, fid, r) ==
    /\ pc = "idle"
    /\ op' = "run"
    /\ file_arg' = fid
    /\ held_at_call' = conversation_id
    /\ IF NeedsConversation(conversation_id)
       THEN /\ trace' = Append(Append(tr, Event("call_run", None, r)),
                                   Event("call_create", None, r))
            /\ StartRequest("create")
       ELSE /\ trace' = Append(tr, Event("call_run", None, r))
            /\ StartRequest("run")
    /\ UNCHANGED <<conversation_id, retry_count, result>>

\* create_conversation returns: to its caller, or into run_app_api (line 209),
\* which gives up when the result is falsy and sends the run request otherwise.
create_conversation_return ==
    /\ pc = "resp"
    /\ url = "create"
    /\ conversation_id' = CreateHeld(response, conversation_id)
    /\ IF op = "run" /\ CreateSucceeded(CreateResult(response))
       THEN /\ StartRequest("run")
            /\ UNCHANGED result
       ELSE /\ pc' = "idle"
            /\ result' = IF op = "run" THEN ResultNone ELSE CreateResult(response)
            /\ UNCHANGED <<url, current_retry, attempts, transients, excs, retry_logs, last, response>>
    /\ UNCHANGED <<retry_count, op, file_arg, held_at_call, trace>>
    /\ UNCHANGED <<resolverVars, sideVars>>

upload_file_return ==
    /\ pc = "resp"
    /\ url = "upload"
    /\ conversation_id' = UploadHeld(response, conversation_id)
    /\ result' = UploadResult(response)
    /\ pc' = "idle"
    /\ UNCHANGED <<retry_count, op, url, file_arg, current_retry, attempts, transients,
                   excs, retry_logs, last, response, held_at_call, trace>>
    /\ UNCHANGED <<resolverVars, sideVars>>

run_app_api_return ==
    /\ pc = "resp"
    /\ url = "run"
    /\ result' = RunResult(response)
    /\ pc' = "idle"
    /\ UNCHANGED <<conversation_id, retry_count, op, url, file_arg, current_retry, attempts,
                   transients, excs, retry_logs, last, response, held_at_call, trace>>
    /\ UNCHANGED <<resolverVars, sideVars>>

ClientStep == _make_request \/ create_conversation_return \/ upload_file_return \/ run_app_api_return

\* ------------------------------------------------ the client used directly
\* A caller that drives the client itself, as main() of appBuilder_api.py
\* does: any operation, in any order, each on the state the last one left.
InitClient(maxRetry) ==
    /\ conversation_id = None
    /\ retry_count \in 0..maxRetry
    /\ pc = "idle"
    /\ op = "none"
    /\ url = "none"
    /\ file_arg = None
    /\ current_retry = 0
    /\ attempts = 0
    /\ transients = 0
    /\ excs = 0
    /\ retry_logs = 0
    /\ last = NoResponse
    /\ response = NoResponse
    /\ result = ResultNone
    /\ held_at_call = None
    /\ trace = <<>>

\* No resolver at work.
NoResolver ==
    /\ mode = "api"
    /\ valid_response_key = None
    /\ nrefs = 0
    /\ rpc = "none"
    /\ idx = 0
    /\ cur = 0
    /\ assets = <<>>
    /\ saved_files = <<>>
    /\ staged = {}
    /\ ciu_conversation_id = None
    /\ resolved = {}
    /\ verdict = "none"
    /\ ret = "none"

\* No validity flag under normalization.
NoNorm ==
    /\ valid_flag = FlagNone
    /\ should_process = "unset"

\* No content text under substitution.
NoText ==
    /\ org_content = <<>>
    /\ new_content = <<>>
    /\ taken = NotTaken
    /\ answers = <<>>

\* No document tree under traversal.
NoTree ==
    /\ json_dict = Other
    /\ process_black_key = {}
    /\ recursive_depth = 0
    /\ all_fields = <<>>
    /\ warned = {}
    /\ url_paths = <<>>

\* No file under conversion.
NoFiles ==
    /\ files = [q \in Paths |-> "absent"]
    /\ source_file_path = NoPath
    /\ target_file_path = ""
    /\ converted = NotConverted
    /\ conversions = 0

\* No document at hand.
NoDoc == NoText /\ NoTree /\ NoFiles

create_conversation ==
    /\ CallCreate(<<>>, 0)
    /\ UNCHANGED <<resolverVars, sideVars>>

upload_file ==
    /\ CallUpload(<<>>, 0)
    /\ UNCHANGED <<resolverVars, sideVars>>

run_app_api ==
    /\ \E fid \in FileIds \cup {None} : CallRun(<<>>, fid, 0)
    /\ UNCHANGED <<resolverVars, sideVars>>

Init == InitClient(MaxRetry) /\ NoResolver /\ NoNorm /\ NoDoc

Next == create_conversation \/ upload_file \/ run_app_api \/ ClientStep

Spec == Init /\ [][Next]_vars

\* ------------------------------------------------- validity normalization
\* The characters validity flags are written with, and str.lower() on them.
FlagAlphabet == {"t", "T", "y", "Y", "e", "s", "1", "0", " "}
Chars == FlagAlphabet \cup {"r", "R", "u", "U", "E", "S", "n", "N", "o", "O"}
LowerChar(c) ==
    CASE c = "T" -> "t"
      [] c = "Y" -> "y"
      [] c = "R" -> "r"
      [] c = "U" -> "u"
      [] c = "E" -> "e"
      [] c = "S" -> "s"
      [] c = "N" -> "n"
      [] c = "O" -> "o"
      [] OTHER   -> c
lower(str) == [i \in 1..Len(str) |-> LowerChar(str[i])]

\* Line 199: the affirmative strings.
Affirmative == {<<"t", "r", "u", "e">>, <<"y", "e", "s">>, <<"1">>, <<"t">>, <<"y">>}

\* Fault: the flag string is compared as it is, without lower().
NormalizeValidFlag_CaseSensitive(flag) ==
    IF flag.t = "str" THEN flag.s \in Affirmative
    ELSE IF flag.t = "bool" THEN flag.b
    ELSE FALSE

\* Lines 198-207: the value under valid_response_key, normalized to a bool.
NormalizeValidFlag(flag) ==
    IF flag.t = "str" THEN lower(flag.s) \in Affirmative
    ELSE IF flag.t = "bool" THEN flag.b
    ELSE FALSE

\* The flags normalization is tried on: every type, every short string, and
\* the words of the affirmative set in several spellings.
Words ==
    {<<"t", "r", "u", "e">>, <<"T", "r", "u", "e">>, <<"T", "R", "U", "E">>, <<"t", "r", "U", "e">>,
     <<"y", "e", "s">>, <<"Y", "e", "s">>, <<"Y", "E", "S">>, <<"y", "e", "S">>,
     <<"n", "o">>, <<"N", "o">>, <<"t", "r", "u">>, <<"y", "e", "s", "s">>, <<"1", "1">>,
     <<" ", "y", "e", "s">>, <<"o", "n">>}
ShortStrings == UNION {[1..n -> FlagAlphabet] : n \in 0..MaxFlagLen}
FlagInputs ==
    {FlagBool(TRUE), FlagBool(FALSE), FlagInt(0), FlagInt(1), FlagInt(2),
     FlagFloat, FlagNone, FlagList, FlagMap}
    \cup {FlagStr(w) : w \in Words \cup ShortStrings}

InitNorm ==
    /\ InitClient(0)
    /\ NoResolver
    /\ NoDoc
    /\ valid_flag \in FlagInputs
    /\ should_process = "unset"

\* Lines 193-207 on their own.
normalize_valid_flag ==
    /\ should_process = "unset"
    /\ should_process' = IF NormalizeValidFlag(valid_flag) THEN "true" ELSE "false"
    /\ UNCHANGED <<valid_flag, clientVars, resolverVars, docVars>>

NextNorm == normalize_valid_flag

SpecNorm == InitNorm /\ [][NextNorm]_vars

\* ------------------------------------------------------ fetch and staging
\* What fetching one reference and staging it gives: requests.get raises
\* (RequestException), writing the staged file raises (OSError), or size bytes
\* of detected format fmt are staged ("unknown": not an image). conv and csize
\* are how re-encoding to JPEG would end and the size of the file it writes.
Formats == {"PNG", "JPEG", "GIF", "unknown"}
Fetch(kind, size, fmt, conv, csize) ==
    [kind |-> kind, size |-> size, fmt |-> fmt, conv |-> conv, csize |-> csize]
Fetches ==
    {Fetch("RequestException", 0, "unknown", "none", 0), Fetch("OSError", 0, "unknown", "none", 0)}
    \cup {Fetch("ok", z, f, "none", 0) : z \in SizeChoices, f \in {"PNG", "JPEG", "unknown"}}
    \cup {Fetch("ok", z, "GIF", c, 0) : z \in SizeChoices, c \in {"IOError", "error"}}
    \cup {Fetch("ok", z, "GIF", "ok", cz) : z \in SizeChoices, cz \in SizeChoices}

\* _convert_to_jpg, lines 77-102: status, the size of the file at the returned
\* path, and whether an exception other than IOError left it.
Converted(status, size, raised) == [status |-> status, size |-> size, raised |-> raised]
_convert_to_jpg(f) ==
    IF f.fmt = "unknown" THEN Converted(FALSE, 0, FALSE)
    ELSE IF f.fmt \in {"JPEG", "JPG", "PNG"} THEN Converted(TRUE, f.size, FALSE)
    ELSE IF f.conv = "ok" THEN Converted(TRUE, f.csize, FALSE)
    ELSE IF f.conv = "IOError" THEN Converted(FALSE, 0, FALSE)
    ELSE Converted(FALSE, 0, TRUE)

Asset(fetched, size) == [fetched |-> fetched, size |-> size]

\* Whether the staging file exists once fetching f is over: it does when the
\* bytes were written; when writing them raised, open() may or may not have
\* created it before.
FileLeft(f) == IF f.kind = "OSError" THEN BOOLEAN ELSE {f.kind = "ok"}

\* Fault: the staging file is left where it is.
Unstage_Never(fs, r) == fs

\* Lines 390 and 395: os.remove(temp_path).
Unstage(fs, r) == fs \ {r}

\* Fault: the gate compares bytes with min_size_kb.
BelowGate_Kb(size) == size < min_size_kb

\* Lines 170 and 389: os.path.getsize(path) < self.min_size_bytes.
BelowGate(size) == size < min_size_bytes

\* Fault: the handler passes the exception on to the caller.
ProcessContentCatch_Propagate(e) == e

\* Lines 236-238 and 427-429: "except Exception" of process_content: the
\* exception e is logged and None is returned.
ProcessContentCatch(e) == "None"

\* ------------------------------------------------- ImageProcessor (marker)
\* Fault: without a validity key the answer is substituted as it is, with or
\* without a fenced block.
Validate_FenceOptional(res, key) ==
    IF ~(res.ok /\ res.payload.answer # None) THEN "skip"
    ELSE LET a == AnswerTable[res.payload.answer]
         IN  IF key = None THEN "substitute"
             ELSE IF a.block # "map" THEN "skip"
             ELSE IF ~a.haskey THEN "KeyError"
             ELSE IF NormalizeValidFlag(a.flag) THEN "substitute"
             ELSE "skip"

\* Lines 175-226: what process_content does with the result of
\* _call_image_understanding: substitute, skip, or raise KeyError.
Validate(res, key) ==
    IF ~(res.ok /\ res.payload.answer # None) THEN "skip"
    ELSE LET a == AnswerTable[res.payload.answer]
         IN  IF a.block # "map" THEN "skip"
             ELSE IF key = None THEN "substitute"
             ELSE IF ~a.haskey THEN "KeyError"
             ELSE IF NormalizeValidFlag(a.flag) THEN "substitute"
             ELSE "skip"

\* Lines 397-412 of StrictImageProcessor.process_content: the answer is
\* substituted whenever the result holds one.
StrictValidate(res) ==
    IF res.ok /\ res.payload.answer # None THEN "substitute" ELSE "skip"

\* _call_image_understanding has returned: the client is idle, the locals of
\* its operations are gone; self.conversation_id stays, and so does the trace.
ClientAtRest ==
    /\ pc' = "idle"
    /\ op' = "none"
    /\ url' = "none"
    /\ file_arg' = None
    /\ current_retry' = 0
    /\ attempts' = 0
    /\ transients' = 0
    /\ excs' = 0
    /\ retry_logs' = 0
    /\ last' = NoResponse
    /\ response' = NoResponse
    /\ result' = ResultNone
    /\ held_at_call' = None
    /\ UNCHANGED <<conversation_id, retry_count, trace>>

\* process_content takes the result res of _call_image_understanding for the
\* reference cur and goes on to the next reference, or ends on a KeyError or,
\* in marker mode, on an answer that re.sub rejects as a replacement (line 213;
\* see process_content_substitute).
Consume(res) ==
    \E e \in IF mode = "marker" THEN {"none", "rejected"} ELSE {"none"} :
    LET checked == IF mode = "marker" THEN Validate(res, valid_response_key)
                   ELSE StrictValidate(res)
        v == IF checked = "substitute" /\ e = "rejected" THEN "re.error" ELSE checked
        error == v \in {"KeyError", "re.error"}
    IN  /\ resolved' = IF v = "substitute" THEN resolved \cup {cur} ELSE resolved
        /\ rpc' = IF error THEN "done" ELSE "loop"
        /\ ret' = IF error THEN ProcessContentCatch(v) ELSE ret
        /\ idx' = IF error THEN idx ELSE idx + 1
        /\ verdict' = v
        /\ ciu_conversation_id' = None
        /\ ClientAtRest
        /\ staged' = IF mode = "inplace" THEN Unstage(staged, cur) ELSE staged
        /\ UNCHANGED <<mode, valid_response_key, nrefs, cur, assets, saved_files>>

\* ImageProcessor.process_content, lines 147-161: no image links, no run.
process_content ==
    /\ mode = "marker"
    /\ rpc = "start"
    /\ rpc' = IF nrefs = 0 THEN "done" ELSE "download"
    /\ ret' = IF nrefs = 0 THEN "None" ELSE ret
    /\ idx' = 1
    /\ UNCHANGED <<mode, valid_response_key, nrefs, cur, assets, saved_files, staged,
                   ciu_conversation_id, resolved, verdict>>
    /\ UNCHANGED <<clientVars, sideVars>>

\* _download_images, lines 107-121: one image link is fetched, staged and
\* converted. Only RequestException is caught there; any other exception
\* ends process_content in its handler.
_download_images ==
    /\ mode = "marker"
    /\ rpc = "download"
    /\ \E f \in Fetches :
        LET c == _convert_to_jpg(f)
            crash == f.kind = "OSError" \/ (f.kind = "ok" /\ c.raised)
            saved == f.kind = "ok" /\ c.status
        IN  /\ assets' = [assets EXCEPT ![idx] =
                            Asset(f.size, IF saved THEN c.size ELSE 0)]
            /\ \E left \in FileLeft(f) : staged' = IF left THEN staged \cup {idx} ELSE staged
            /\ saved_files' = IF saved THEN Append(saved_files, idx) ELSE saved_files
            /\ rpc' = IF crash THEN "done" ELSE IF idx = nrefs THEN "loop" ELSE "download"
            /\ ret' = IF crash THEN ProcessContentCatch("Exception") ELSE ret
            /\ idx' = IF crash THEN idx ELSE IF idx = nrefs THEN 1 ELSE idx + 1
    /\ UNCHANGED <<mode, valid_response_key, nrefs, cur, ciu_conversation_id, resolved, verdict>>
    /\ UNCHANGED <<clientVars, sideVars>>

\* Lines 169-174 and 228-234: the next saved file passes the size gate and
\* _call_image_understanding starts on it (line 129: create_conversation), or
\* it is skipped; after the last one the content is returned.
process_content_loop ==
    /\ mode = "marker"
    /\ rpc = "loop"
    /\ pc = "idle"
    /\ IF idx > Len(saved_files)
       THEN /\ rpc' = "done"
            /\ ret' = "content"
            /\ UNCHANGED <<idx, cur, clientVars>>
       ELSE IF BelowGate(assets[saved_files[idx]].size)
       THEN /\ idx' = idx + 1
            /\ cur' = saved_files[idx]
            /\ trace' = <<>>
            /\ UNCHANGED <<rpc, ret, clientRest>>
       ELSE /\ cur' = saved_files[idx]
            /\ rpc' = "ciu_create"
            /\ CallCreate(<<>>, saved_files[idx])
            /\ UNCHANGED <<idx, ret>>
    /\ UNCHANGED <<mode, valid_response_key, nrefs, assets, saved_files, staged,
                   ciu_conversation_id, resolved, verdict, sideVars>>

\* ------------------------------------------ StrictImageProcessor (in place)
\* Lines 362-375: no matching reference, no run.
strict_process_content ==
    /\ mode = "inplace"
    /\ rpc = "start"
    /\ rpc' = IF nrefs = 0 THEN "done" ELSE "loop"
    /\ ret' = IF nrefs = 0 THEN "None" ELSE ret
    /\ idx' = 1
    /\ UNCHANGED <<mode, valid_response_key, nrefs, cur, assets, saved_files, staged,
                   ciu_conversation_id, resolved, verdict>>
    /\ UNCHANGED <<clientVars, sideVars>>

\* Lines 378-394 and 414-425: the next reference is fetched and staged as it
\* is; a failure is logged and the loop goes on; a file below the gate is
\* removed and skipped; otherwise _call_image_understanding starts on it.
\* After the last reference the document is returned.
strict_process_content_loop ==
    /\ mode = "inplace"
    /\ rpc = "loop"
    /\ pc = "idle"
    /\ IF idx > nrefs
       THEN /\ rpc' = "done"
            /\ ret' = "content"
            /\ UNCHANGED <<idx, cur, assets, staged, clientVars>>
       ELSE \E f \in {g \in Fetches : g.fmt = "unknown"} \cup
                     {g \in Fetches : g.fmt = "PNG"} :
            /\ assets' = [assets EXCEPT ![idx] =
                            Asset(f.size, IF f.kind = "ok" THEN f.size ELSE 0)]
            /\ cur' = idx
            /\ \E left \in FileLeft(f) :
                    staged' = IF ~left THEN staged
                              ELSE IF f.kind = "ok" /\ BelowGate(f.size)
                              THEN Unstage(staged \cup {idx}, idx)
                              ELSE staged \cup {idx}
            /\ IF f.kind # "ok" \/ BelowGate(f.size)
               THEN /\ idx' = idx + 1
                    /\ trace' = <<>>
                    /\ UNCHANGED <<rpc, ret, clientRest>>
               ELSE /\ rpc' = "ciu_create"
                    /\ CallCreate(<<>>, idx)
                    /\ UNCHANGED <<idx, ret>>
    /\ UNCHANGED <<mode, valid_response_key, nrefs, saved_files,
                   ciu_conversation_id, resolved, verdict, sideVars>>

\* ------------------------------------------------ _call_image_understanding
\* Lines 129-130: create_conversation returned; its value is kept and
\* upload_file is called, whatever the value.
_call_image_understanding ==
    /\ rpc = "ciu_create"
    /\ pc = "idle"
    /\ ciu_conversation_id' = result.cid
    /\ rpc' = "ciu_upload"
    /\ CallUpload(trace, cur)
    /\ UNCHANGED <<mode, valid_response_key, nrefs, idx, cur, assets, saved_files, staged,
                   resolved, verdict, ret, sideVars>>

\* Fault: the file id alone decides.
ReadyToRun_FileOnly(fid, cid) == Truthy(fid)

\* Fault: the session alone decides.
ReadyToRun_SessionOnly(fid, cid) == Truthy(cid)

\* Line 132: "if file_id and conversation_id".
ReadyToRun(fid, cid) == Truthy(fid) /\ Truthy(cid)

\* Lines 130-135: upload_file returned; with a file id and a conversation id
\* run_app_api is called, otherwise the result is None and process_content
\* takes it.
ciu_upload_return ==
    /\ rpc = "ciu_upload"
    /\ pc = "idle"
    /\ IF ReadyToRun(result.fid, ciu_conversation_id)
       THEN /\ rpc' = "ciu_run"
            /\ CallRun(trace, result.fid, cur)
            /\ UNCHANGED <<mode, valid_response_key, nrefs, idx, cur, assets, saved_files, staged,
                           ciu_conversation_id, resolved, ret, verdict>>
       ELSE Consume(ResultNone)
    /\ UNCHANGED sideVars

\* Line 135: run_app_api returned, and process_content takes its result.
ciu_run_return ==
    /\ rpc = "ciu_run"
    /\ pc = "idle"
    /\ Consume(result)
    /\ UNCHANGED sideVars

\* --------------------------------------------------- the resolver at work
InitResolver ==
    /\ InitClient(MaxResolverRetry)
    /\ NoNorm
    /\ NoDoc
    /\ mode \in {"marker", "inplace"}
    /\ valid_response_key \in {None, "is_valid"}
    /\ nrefs \in 0..MaxRefs
    /\ rpc = "start"
    /\ idx = 0
    /\ cur = 0
    /\ assets = [r \in 1..nrefs |-> Asset(0, 0)]
    /\ saved_files = <<>>
    /\ staged = {}
    /\ ciu_conversation_id = None
    /\ resolved = {}
    /\ verdict = "none"
    /\ ret = "none"

NextResolver ==
    \/ process_content
    \/ _download_images
    \/ process_content_loop
    \/ strict_process_content
    \/ strict_process_content_loop
    \/ _call_image_understanding
    \/ ciu_upload_return
    \/ ciu_run_return
    \/ ClientStep

SpecResolver == InitResolver /\ [][NextResolver]_vars

\* ------------------------------------------------- marker substitution
\* Line 213: re.sub(pattern, replacement, new_content) for the marker of the
\* image named name: every occurrence in the text as it is now is replaced,
\* those inside an answer inserted before included; the rest is left.
ReSub(name, replacement, content) ==
    [i \in 1..Len(content) |->
        IF content[i] = Marker(name) THEN replacement
        ELSE IF content[i].t = "description" /\ content[i].name = name
        THEN Altered(content[i])
        ELSE content[i]]

\* What _call_image_understanding may hand to process_content.
MarkerResults == {ResultNone} \cup {Result(TRUE, None, None, b) : b \in Bodies("run") \ {NoBody}}

\* The texts of at most MaxTokens tokens, and the files a download may save.
Contents == UNION {[1..n -> {Text} \cup {Marker(r) : r \in 1..MaxRefs}] : n \in 0..MaxTokens}
SavedChoices(n) ==
    {sf \in UNION {[1..k -> 1..n] : k \in 0..n} :
        \A i \in 1..Len(sf), j \in 1..Len(sf) : i < j => sf[i] < sf[j]}

\* process_content after _download_images, lines 163-167: every saved file is
\* at the size gate or above, new_content starts as the content text.
InitMarker ==
    /\ InitClient(0)
    /\ NoNorm
    /\ mode = "marker"
    /\ valid_response_key \in {None, "is_valid"}
    /\ nrefs \in 1..MaxRefs
    /\ saved_files \in SavedChoices(nrefs)
    /\ staged = {saved_files[i] : i \in 1..Len(saved_files)}
    /\ assets = [r \in 1..nrefs |-> Asset(min_size_bytes, min_size_bytes)]
    /\ rpc = "text"
    /\ idx = 1
    /\ cur = 0
    /\ ciu_conversation_id = None
    /\ resolved = {}
    /\ verdict = "none"
    /\ ret = "none"
    /\ org_content \in Contents
    /\ new_content = org_content
    /\ taken = NotTaken
    /\ answers = <<>>
    /\ NoTree
    /\ NoFiles

\* Lines 174-226: the result for the next saved file is validated and, when
\* valid, substituted for the markers of its image. A KeyError, and an answer
\* re.sub rejects as a replacement, end process_content in its handler.
process_content_substitute ==
    /\ mode = "marker"
    /\ rpc = "text"
    /\ idx <= Len(saved_files)
    /\ \E res \in MarkerResults, e \in Escapes :
        LET v == Validate(res, valid_response_key)
            name == saved_files[idx]
            error == IF v = "KeyError" THEN "KeyError"
                     ELSE IF v = "substitute" /\ e = "rejected" THEN "re.error"
                     ELSE "none"
        IN  /\ taken' = Taken(res.ok /\ res.payload.answer # None, res.payload.answer, e)
            /\ verdict' = v
            /\ cur' = name
            /\ new_content' = IF v = "substitute" /\ error = "none"
                               THEN ReSub(name, Description(res.payload.answer, e), new_content)
                               ELSE new_content
            /\ resolved' = IF v = "substitute" /\ error = "none"
                            THEN resolved \cup {name} ELSE resolved
            /\ rpc' = IF error = "none" THEN "text" ELSE "done"
            /\ ret' = IF error = "none" THEN ret ELSE ProcessContentCatch(error)
            /\ idx' = IF error = "none" THEN idx + 1 ELSE idx
    /\ UNCHANGED <<mode, valid_response_key, nrefs, assets, saved_files, staged, ciu_conversation_id>>
    /\ UNCHANGED <<org_content, answers, clientVars, normVars, treeVars, fileVars>>

\* Lines 228-234: after the last saved file new_content is returned.
process_content_return ==
    /\ mode = "marker"
    /\ rpc = "text"
    /\ idx > Len(saved_files)
    /\ rpc' = "done"
    /\ ret' = "content"
    /\ UNCHANGED <<mode, valid_response_key, nrefs, idx, cur, assets, saved_files, staged,
                   ciu_conversation_id, resolved, verdict>>
    /\ UNCHANGED <<clientVars, sideVars>>

NextMarker == process_content_substitute \/ process_content_return

SpecMarker == InitMarker /\ [][NextMarker]_vars

\* ------------------------------------------- marker substitution, in order
\* What the service answers for an image: a valid answer, whose text may hold
\* the marker {{holds}} of an image (0: none).
Answered(a, m) == [answer |-> a, holds |-> m]
AnswerChoices == {Answered("v_true", m) : m \in 0..MaxRefs}

\* process_content after _download_images, lines 163-167, with two images
\* saved, in the order of image_links; the answer for each image is given.
InitOrder ==
    /\ InitClient(0)
    /\ NoNorm
    /\ NoTree
    /\ NoFiles
    /\ mode = "marker"
    /\ valid_response_key = "is_valid"
    /\ nrefs = MaxRefs
    /\ saved_files \in {<<k1, k2>> : k1, k2 \in 1..MaxRefs} \ {<<k, k>> : k \in 1..MaxRefs}
    /\ staged = {saved_files[i] : i \in 1..Len(saved_files)}
    /\ assets = [r \in 1..nrefs |-> Asset(min_size_bytes, min_size_bytes)]
    /\ rpc = "text"
    /\ idx = 1
    /\ cur = 0
    /\ ciu_conversation_id = None
    /\ resolved = {}
    /\ verdict = "none"
    /\ ret = "none"
    /\ org_content \in Contents
    /\ new_content = org_content
    /\ taken = NotTaken
    /\ answers \in [1..MaxRefs -> AnswerChoices]

\* Lines 174-214 for the next saved file, the service answering as given:
\* the answer is validated and substituted for the markers of its image.
process_content_answered ==
    /\ mode = "marker"
    /\ rpc = "text"
    /\ idx <= Len(saved_files)
    /\ answers # <<>>
    /\ LET name == saved_files[idx]
           a == answers[name]
           v == Validate(Result(TRUE, None, None, Body(TRUE, None, None, a.answer)),
                         valid_response_key)
       IN  /\ taken' = Taken(TRUE, a.answer, "none")
           /\ verdict' = v
           /\ cur' = name
           /\ new_content' = IF v = "substitute"
                              THEN ReSub(name, DescriptionWith(a.answer, "none", a.holds),
                                         new_content)
                              ELSE new_content
           /\ resolved' = IF v = "substitute" THEN resolved \cup {name} ELSE resolved
           /\ idx' = idx + 1
    /\ UNCHANGED <<mode, valid_response_key, nrefs, rpc, ret, assets, saved_files, staged,
                   ciu_conversation_id>>
    /\ UNCHANGED <<org_content, answers, clientVars, normVars, treeVars, fileVars>>

NextOrder == process_content_answered \/ process_content_return

SpecOrder == InitOrder /\ [][NextOrder]_vars

\* ------------------------------------------- StrictImageProcessor: the tree
\* The keys of the documents: plain ones, and ones spelled with '.', '[', ']'.
KeyA == <<"a">>
KeyB == <<"b">>
KeyAB == <<"a", ".", "b">>
KeyA0 == <<"a", "[", "0", "]">>
\* "{}".format(i) of a list index.
Digit(i) == CASE i = 0 -> "0" [] i = 1 -> "1" [] i = 2 -> "2" [] OTHER -> "9"

\* An entry of the list _traverse_dict returns: (key_path, value), and with
\* it the place of the value in the tree, as the child numbers from the root.
Field(path, value, pos) == [path |-> path, value |-> value, pos |-> pos]
\* What one call of _traverse_dict gives: its results, and the places where
\* it logged "maximum recursion depth reached".
Found(results, warnings) == [results |-> results, warnings |-> warnings]

\* Fault: the black list is not looked at.
Skipped_Never(key) == FALSE

\* Line 319: "if key in self.process_black_key".
Skipped(key) == key \in process_black_key

\* Fault: the depth test lets one more level through.
TooDeep_OneMore(depth) == depth > recursive_depth + 1

\* Line 308: "if depth > self.recursive_depth".
TooDeep(depth) == depth > recursive_depth

\* Lines 323 and 338: current_path of the i-th child of data.
CurrentPath(data, i, parent_key) ==
    IF data.t = "dict"
    THEN IF parent_key # <<>> THEN parent_key \o <<".">> \o data.kids[i].key
                              ELSE data.kids[i].key
    ELSE parent_key \o <<"[", Digit(i - 1), "]">>

\* _traverse_dict, lines 300-353; pos is the place of data in the tree.
RECURSIVE _traverse_dict(_, _, _, _)
_traverse_dict(data, depth, parent_key, pos) ==
    IF TooDeep(depth) THEN Found(<<>>, {pos})
    ELSE IF data.t \notin {"dict", "list"} THEN Found(<<>>, {})
    ELSE LET Visit(i) ==
                 LET value == data.kids[i].node
                     current_path == CurrentPath(data, i, parent_key)
                 IN  IF data.t = "dict" /\ Skipped(data.kids[i].key)
                     THEN Found(<<>>, {})
                     ELSE IF value.t \in {"dict", "list"}
                     THEN _traverse_dict(value, depth + 1, current_path, Append(pos, i))
                     ELSE IF value.t = "str"
                     THEN Found(<<Field(current_path, value.v, Append(pos, i))>>, {})
                     ELSE Found(<<>>, {})
             Loop[i \in 0..Len(data.kids)] ==
                 IF i = 0 THEN Found(<<>>, {})
                 ELSE LET v == Visit(i)
                      IN  Found(Loop[i - 1].results \o v.results,
                                Loop[i - 1].warnings \cup v.warnings)
         IN  Loop[Len(data.kids)]

\* _validate_url, lines 281-298, on a located string.
_validate_url(value) == value \in Urls

\* Lines 365-371: url_paths[value] = path for every matching field. A dict
\* keeps a key where it was first inserted and the value assigned last.
UrlPaths(fields) ==
    LET Put(up, f) ==
            IF \E k \in 1..Len(up) : up[k].value = f.value
            THEN [k \in 1..Len(up) |-> IF up[k].value = f.value THEN f ELSE up[k]]
            ELSE Append(up, f)
        Loop[i \in 0..Len(fields)] ==
            IF i = 0 THEN <<>>
            ELSE IF _validate_url(fields[i].value) THEN Put(Loop[i - 1], fields[i])
            ELSE Loop[i - 1]
    IN  Loop[Len(fields)]

\* The documents: leaves wrapped in up to MaxNest containers, each container
\* a dict or a list of one child, or of a child and a scalar beside it.
Leaves == {Str("u1"), Str("u2"), Str(PlainText), Other}
Wraps(c) ==
    {Dict(<<Entry(k, c)>>) : k \in {KeyA, KeyB, KeyAB}}
    \cup {Dict(<<Entry(KeyA, c), Entry(KeyB, Str("u1"))>>),
          Dict(<<Entry(KeyA, Str("u1")), Entry(KeyB, c)>>),
          Dict(<<Entry(KeyA, Other), Entry(KeyB, c)>>),
          Dict(<<Entry(KeyAB, Str("u1")), Entry(KeyA, c)>>),
          Dict(<<Entry(KeyA, c), Entry(KeyA0, Str("u1"))>>),
          List(<<Item(c)>>),
          List(<<Item(c), Item(Str("u1"))>>),
          List(<<Item(Str("u1")), Item(c)>>)}
RECURSIVE Trees(_)
Trees(n) == IF n = 0 THEN Leaves ELSE LET T == Trees(n - 1) IN T \cup UNION {Wraps(c) : c \in T}
Docs == Trees(MaxNest) \ Leaves

\* A StrictImageProcessor and the document it is given.
InitTree ==
    /\ InitClient(0)
    /\ NoNorm
    /\ NoText
    /\ NoFiles
    /\ mode = "inplace"
    /\ valid_response_key = None
    /\ nrefs = 0
    /\ rpc = "tree"
    /\ idx = 0
    /\ cur = 0
    /\ assets = <<>>
    /\ saved_files = <<>>
    /\ staged = {}
    /\ ciu_conversation_id = None
    /\ resolved = {}
    /\ verdict = "none"
    /\ ret = "none"
    /\ json_dict \in Docs
    /\ process_black_key \in SUBSET {KeyA, KeyB}
    /\ recursive_depth \in 0..MaxNest
    /\ all_fields = <<>>
    /\ warned = {}
    /\ url_paths = <<>>

\* The resolver's variables the work on the tree leaves alone.
treeRest == <<mode, valid_response_key, assets, saved_files, staged, ciu_conversation_id>>

\* StrictImageProcessor.process_content, lines 364-375: the tree is traversed,
\* the matching fields are collected; with none of them the run returns None.
strict_locate ==
    /\ mode = "inplace"
    /\ rpc = "tree"
    /\ LET found == _traverse_dict(json_dict, 0, <<>>, <<>>)
           up == UrlPaths(found.results)
       IN  /\ all_fields' = found.results
           /\ warned' = found.warnings
           /\ url_paths' = up
           /\ nrefs' = Len(up)
           /\ rpc' = IF up = <<>> THEN "done" ELSE "tree_loop"
           /\ ret' = IF up = <<>> THEN "None" ELSE ret
           /\ idx' = 1
           /\ verdict' = "none"
    /\ UNCHANGED <<json_dict, process_black_key, recursive_depth, cur, resolved>>
    /\ UNCHANGED <<treeRest, clientVars, normVars, textVars, fileVars>>

\* path.split('.'), line 400.
RECURSIVE Split(_)
Split(str) ==
    IF \A i \in 1..Len(str) : str[i] # "." THEN <<str>>
    ELSE LET i == CHOOSE j \in 1..Len(str) :
                    str[j] = "." /\ \A k \in 1..(j - 1) : str[k] # "."
         IN  <<SubSeq(str, 1, i - 1)>> \o Split(SubSeq(str, i + 1, Len(str)))

\* The node at place pos of the tree doc.
RECURSIVE NodeAt(_, _)
NodeAt(doc, pos) == IF pos = <<>> THEN doc ELSE NodeAt(doc.kids[Head(pos)].node, Tail(pos))
\* The number of the entry of dict node under key, 0 when it has none.
KeyIndex(node, key) ==
    IF \E i \in 1..Len(node.kids) : node.kids[i].key = key
    THEN CHOOSE i \in 1..Len(node.kids) : node.kids[i].key = key
    ELSE 0

\* What current_dict is bound to while lines 401-409 walk the path: a node of
\* the document (at its place), a fresh {} that .get(part, {}) made up, or
\* nothing, an exception having been raised.
At(pos) == [kind |-> "at", pos |-> pos]
Detached == [kind |-> "detached", pos |-> <<>>]
Raised == [kind |-> "raised", pos |-> <<>>]

\* Line 405: current_dict = current_dict.get(part, {}). Only a dict has get.
Get(doc, c, part) ==
    IF c.kind # "at" THEN c
    ELSE LET n == NodeAt(doc, c.pos)
         IN  IF n.t # "dict" THEN Raised
             ELSE IF KeyIndex(n, part) = 0 THEN Detached
             ELSE At(Append(c.pos, KeyIndex(n, part)))

\* Lines 401-405: current_dict after the walk along path_parts[:-1].
Walk(doc, parts) ==
    LET Loop[j \in 0..(Len(parts) - 1)] ==
            IF j = 0 THEN At(<<>>) ELSE Get(doc, Loop[j - 1], parts[j])
    IN  Loop[Len(parts) - 1]

\* node[key] = val on the dict at place pos of the tree node.
RECURSIVE Assign(_, _, _, _)
Assign(node, pos, key, val) ==
    IF pos = <<>>
    THEN IF KeyIndex(node, key) = 0
         THEN Dict(Append(node.kids, Entry(key, val)))
         ELSE [node EXCEPT !.kids[KeyIndex(node, key)].node = val]
    ELSE [node EXCEPT !.kids[Head(pos)].node = Assign(@, Tail(pos), key, val)]

\* Lines 400-409: the document after "current_dict[last_part] = answer". An
\* assignment into a made-up {} is lost; one into a list or a scalar raises,
\* as does get on them, and line 416 catches it.
SetAnswer(doc, path, answer) ==
    LET path_parts == Split(path)
        c == Walk(doc, path_parts)
        last_part == path_parts[Len(path_parts)]
    IN  IF c.kind = "at" /\ NodeAt(doc, c.pos).t = "dict"
        THEN Assign(doc, c.pos, last_part, Str(answer))
        ELSE doc

\* Fault: the loop looks the references up in the document as it is now.
NextUrl_Fresh(up, i) ==
    LET fresh == UrlPaths(_traverse_dict(json_dict, 0, <<>>, <<>>).results)
    IN  IF fresh # <<>> THEN fresh[1] ELSE up[i]

\* Line 378: "for url, path in url_paths.items()", the i-th turn.
NextUrl(up, i) == up[i]

\* What the service may answer: a description, or a text that happens to
\* match the reference pattern itself.
Answers == {AnswerText, "u2"}

\* Lines 378-417, for the next url of url_paths: the image is fetched, gated
\* and understood (see strict_process_content_loop), and when the result
\* holds an answer it is written into the document along the path.
strict_substitute ==
    /\ mode = "inplace"
    /\ rpc = "tree_loop"
    /\ idx <= Len(url_paths)
    /\ \E answered \in BOOLEAN, answer \in Answers :
        /\ json_dict' = IF answered
                         THEN SetAnswer(json_dict, NextUrl(url_paths, idx).path, answer)
                         ELSE json_dict
        /\ verdict' = IF answered THEN "substitute" ELSE "skip"
        /\ resolved' = IF answered THEN resolved \cup {idx} ELSE resolved
    /\ cur' = idx
    /\ idx' = idx + 1
    /\ UNCHANGED <<process_black_key, recursive_depth, all_fields, warned, url_paths, nrefs, rpc, ret>>
    /\ UNCHANGED <<treeRest, clientVars, normVars, textVars, fileVars>>

\* Lines 419-425: after the last url the document is returned.
strict_return ==
    /\ mode = "inplace"
    /\ rpc = "tree_loop"
    /\ idx > Len(url_paths)
    /\ rpc' = "done"
    /\ ret' = "content"
    /\ UNCHANGED <<treeVars, nrefs, idx, cur, resolved, verdict>>
    /\ UNCHANGED <<treeRest, clientVars, normVars, textVars, fileVars>>

NextTree == strict_locate \/ strict_substitute \/ strict_return

SpecTree == InitTree /\ [][NextTree]_vars

\* ------------------------------------------- _convert_to_jpg on the files
\* Fault: a PNG is re-encoded as well.
IsCanonical_JpegOnly(fmt) == fmt \in {"JPEG", "JPG"}

\* Line 86: "if image_format in ['JPEG', 'JPG', 'PNG']".
IsCanonical(fmt) == fmt \in {"JPEG", "JPG", "PNG"}

\* Lines 79 and 91-92: os.path.join(target_file_path,
\* "{}.jpg".format(os.path.splitext(filename)[0])).
TargetPath(source, dir) == Path(dir, source.stem, "jpg")

\* How lines 89-98 may end: all of it done; IOError before anything is
\* written; IOError while the target is written; OSError from os.remove
\* (IOError is OSError); an exception that is not an IOError.
ConvertOutcomes == {"ok", "IOError_open", "IOError_save", "OSError_remove", "error"}

\* The files after lines 89-98 ended as outcome o.
ConvertFiles(fs, source, target, o) ==
    CASE o = "ok"             -> [[fs EXCEPT ![target] = "JPEG"] EXCEPT ![source] = "absent"]
      [] o = "IOError_save"   -> [fs EXCEPT ![target] = "unknown"]
      [] o = "OSError_remove" -> [fs EXCEPT ![target] = "JPEG"]
      [] OTHER                -> fs

\* Files in some directories, one of them (or a missing one) to convert.
InitConvert ==
    /\ InitClient(0)
    /\ NoResolver
    /\ NoNorm
    /\ NoText
    /\ NoTree
    /\ files \in [Paths -> FileFormats \cup {"absent"}]
    /\ source_file_path \in Paths
    /\ target_file_path \in Dirs
    /\ converted = NotConverted
    /\ conversions = 0

\* _convert_to_jpg(source_file_path, target_file_path), lines 77-102, on the
\* files as they are. The caller goes on with the path it returned.
Convert ==
    /\ conversions < MaxConversions
    /\ source_file_path # NoPath
    /\ converted.status # "raised"
    /\ conversions' = conversions + 1
    /\ LET image_format == files[source_file_path]
           target_path == TargetPath(source_file_path, target_file_path)
       IN  IF image_format \in {"absent", "unknown"}
           THEN /\ converted' = Return("False", NoPath)
                /\ UNCHANGED <<files, source_file_path>>
           ELSE IF IsCanonical(image_format)
           THEN /\ converted' = Return("True", source_file_path)
                /\ UNCHANGED <<files, source_file_path>>
           ELSE \E o \in ConvertOutcomes :
                /\ files' = ConvertFiles(files, source_file_path, target_path, o)
                /\ converted' = CASE o = "ok"    -> Return("True", target_path)
                                   [] o = "error" -> Return("raised", NoPath)
                                   [] OTHER       -> Return("False", NoPath)
                /\ source_file_path' = IF o = "ok" THEN target_path ELSE source_file_path
    /\ UNCHANGED target_file_path

\* _convert_to_jpg called on its own.
convert_to_jpg ==
    /\ mode = "api"
    /\ Convert
    /\ UNCHANGED <<clientVars, resolverVars, normVars, textVars, treeVars>>

NextConvert == convert_to_jpg

SpecConvert == InitConvert /\ [][NextConvert]_vars

\* --------------------------------------------- one reference from fetch to call
\* The files a reference is staged in: "{key}_{index}.png" of _download_images
\* (line 112) and what _convert_to_jpg writes beside it, "temp_{hash}.jpg" of
\* StrictImageProcessor.process_content (line 383); all in image_save_dir.
StagePaths == {Path("images", "k_1", "png"), Path("images", "k_1", "jpg"),
               Path("images", "temp_h", "jpg")}
StagedAs(m) == IF m = "marker" THEN Path("images", "k_1", "png")
               ELSE Path("images", "temp_h", "jpg")

\* How fetching and writing the bytes may end (lines 109-114, 381-386).
FetchKinds == {"ok", "RequestException", "OSError"}

\* A resolver of either class about to fetch one reference; image_save_dir
\* may hold files of earlier runs.
InitStage ==
    /\ InitClient(0)
    /\ NoNorm
    /\ NoText
    /\ NoTree
    /\ mode \in {"marker", "inplace"}
    /\ valid_response_key = None
    /\ nrefs = 1
    /\ rpc = "fetch"
    /\ idx = 1
    /\ cur = 1
    /\ assets = <<>>
    /\ saved_files = <<>>
    /\ staged = {}
    /\ ciu_conversation_id = None
    /\ resolved = {}
    /\ verdict = "none"
    /\ ret = "none"
    /\ files \in [StagePaths -> {"absent", "JPEG", "unknown"}]
    /\ source_file_path = NoPath
    /\ target_file_path = "images"
    /\ converted = NotConverted
    /\ conversions = 0

\* The resolver's variables but rpc, and all that staging leaves alone.
stageRest == <<mode, valid_response_key, nrefs, idx, cur, assets, saved_files, staged,
               ciu_conversation_id, resolved, verdict>>

\* Lines 109-114 and 381-386: the bytes are fetched and written to the
\* staging file as they are. ImageProcessor goes on to _convert_to_jpg,
\* StrictImageProcessor to the size gate. A RequestException skips the
\* reference; so does any other exception in StrictImageProcessor (line 416),
\* while in ImageProcessor it ends the run (line 236).
stage_fetch ==
    /\ mode \in {"marker", "inplace"}
    /\ rpc = "fetch"
    /\ \E kind \in FetchKinds, fmt \in FileFormats, torn \in BOOLEAN :
        LET file_path == StagedAs(mode)
        IN  /\ files' = CASE kind = "ok" -> [files EXCEPT ![file_path] = fmt]
                           [] kind = "OSError" /\ torn -> [files EXCEPT ![file_path] = "unknown"]
                           [] OTHER -> files
            /\ source_file_path' = IF kind = "ok" THEN file_path ELSE source_file_path
            /\ rpc' = CASE kind = "ok" -> IF mode = "marker" THEN "normalize" ELSE "gate"
                         [] kind = "OSError" /\ mode = "marker" -> "done"
                         [] OTHER -> "skipped"
            /\ ret' = IF kind = "OSError" /\ mode = "marker"
                      THEN ProcessContentCatch("OSError") ELSE ret
    /\ UNCHANGED <<target_file_path, converted, conversions, stageRest>>
    /\ UNCHANGED <<clientVars, normVars, textVars, treeVars>>

\* Lines 116-119 of _download_images: the staged file goes through
\* _convert_to_jpg; with status True the returned path is kept for the loop
\* of process_content, otherwise the reference is dropped.
stage_normalize ==
    /\ mode = "marker"
    /\ rpc = "normalize"
    /\ Convert
    /\ rpc' = CASE converted'.status = "True" -> "gate"
                 [] converted'.status = "raised" -> "done"
                 [] OTHER -> "skipped"
    /\ ret' = IF converted'.status = "raised" THEN ProcessContentCatch("Exception") ELSE ret
    /\ UNCHANGED <<stageRest, clientVars, normVars, textVars, treeVars>>

\* Lines 170-174 and 389-394: the size gate on the staged file; below it
\* StrictImageProcessor removes the file; at or above it the path goes to
\* _call_image_understanding, which opens the file and uploads it.
stage_gate ==
    /\ mode \in {"marker", "inplace"}
    /\ rpc = "gate"
    /\ \E below \in BOOLEAN :
        /\ rpc' = IF below THEN "skipped" ELSE "understanding"
        /\ files' = IF below /\ mode = "inplace"
                    THEN [files EXCEPT ![source_file_path] = "absent"] ELSE files
    /\ UNCHANGED <<source_file_path, target_file_path, converted, conversions, ret, stageRest>>
    /\ UNCHANGED <<clientVars, normVars, textVars, treeVars>>

\* Lines 174 and 394-395: _call_image_understanding has returned;
\* StrictImageProcessor removes the staging file.
stage_understood ==
    /\ mode \in {"marker", "inplace"}
    /\ rpc = "understanding"
    /\ rpc' = "queried"
    /\ files' = IF mode = "inplace"
                THEN [files EXCEPT ![source_file_path] = "absent"] ELSE files
    /\ UNCHANGED <<source_file_path, target_file_path, converted, conversions, ret, stageRest>>
    /\ UNCHANGED <<clientVars, normVars, textVars, treeVars>>

NextStage == stage_fetch \/ stage_normalize \/ stage_gate \/ stage_understood

SpecStage == InitStage /\ [][NextStage]_vars

\* ------------------------------------------------------ reading the state
\* The positions of the events named ev in the trace.
Positions(ev) == {i \in 1..Len(trace) : trace[i].ev = ev}
\* Every attempt of the current request so far answered 500 or 424.
AllTransient == attempts >= 1 /\ transients = attempts /\ excs = 0
\* The latest attempt answered 200 and every one before it 500 or 424.
TransientThenOk ==
    /\ last.kind = "resp"
    /\ last.status = 200
    /\ excs = 0
    /\ transients = attempts - 1
\* The operation the caller invoked has returned.
Returned(o) == pc = "idle" /\ op = o
\* What each operation returns for a well-formed 200 payload b.
PayloadResult(u, b) ==
    CASE u = "create" -> Result(TRUE, b.conversation_id, None, b)
      [] u = "upload" -> Result(TRUE, b.conversation_id, b.id, b)
      [] u = "run"    -> Result(TRUE, None, None, b)

\* The answer of result res holds a well-formed fenced block and, when a
\* validity key is configured, a value under it that normalizes to true.
FencedAndValid(res, key) ==
    /\ res.ok
    /\ res.payload.answer \in AnswerNames
    /\ AnswerTable[res.payload.answer].block = "map"
    /\ key # None =>
            /\ AnswerTable[res.payload.answer].haskey
            /\ NormalizeValidFlag(AnswerTable[res.payload.answer].flag)

\* ------------------------------------------------------------------ claims
\* C1: for each remote operation, k transient statuses (500/424) in a row,
\* k <= retry_count, followed by 200: the wrapper keeps trying through the k
\* failures, logs exactly k retries, stops at the 200 after k+1 attempts and
\* returns that response, and the operation returns the value of its payload.
C1_RetryThenSuccess ==
    /\ (AllTransient /\ attempts <= retry_count) =>
            (pc = "req" /\ retry_logs = attempts)
    /\ TransientThenOk =>
            /\ transients <= retry_count
            /\ pc # "req"
            /\ response = last
            /\ retry_logs = transients
            /\ attempts = transients + 1
            /\ (Returned(url) /\ last.body.json) => result = PayloadResult(url, last.body)

\* The scenario of the spec: 500, 500, 200 with retry_count = 3.
C1_Witness ==
    /\ retry_count = 3
    /\ Returned("upload")
    /\ TransientThenOk
    /\ transients = 2
    /\ result.ok
    /\ result.fid \in FileIds

\* C2: when every attempt of a request is a transient status or an exception,
\* in any mix, the wrapper makes exactly retry_count + 1 attempts (one shared
\* budget), then stops, and the operation returns its failure value.
C2_Exhausted ==
    (attempts >= 1 /\ transients + excs = attempts) =>
        /\ attempts <= retry_count + 1
        /\ (pc = "req") = (attempts <= retry_count)
        /\ current_retry = IF attempts <= retry_count THEN attempts ELSE retry_count
        /\ pc = "idle" => result = ResultNone

C2_Witness ==
    /\ retry_count = 2
    /\ Returned("run")
    /\ url = "run"
    /\ attempts = 3
    /\ transients = 1
    /\ excs = 2
    /\ result = ResultNone

\* C3: a non-success status outside {500, 424} ends the request at once,
\* whatever budget is left, and the operation returns its failure value.
C3_NoRetryOnPermanent ==
    (last.kind = "resp" /\ last.status \notin {200, 500, 424}) =>
        /\ pc # "req"
        /\ response = last
        /\ pc = "idle" => result = ResultNone

C3_Witness ==
    /\ Returned("create")
    /\ last.kind = "resp"
    /\ last.status = 404
    /\ attempts = 2
    /\ current_retry = 1
    /\ retry_count = 3
    /\ result = ResultNone

\* C4: run_app_api on a client holding no conversation_id calls
\* create_conversation exactly once, before any run request is sent; on a
\* client holding one it never calls create_conversation.
C4_LazyCreate ==
    op = "run" =>
        /\ Cardinality(Positions("call_create")) = IF Truthy(held_at_call) THEN 0 ELSE 1
        /\ \A i \in Positions("call_create"), j \in Positions("send_run") : i < j

C4_Witness ==
    /\ Returned("run")
    /\ ~Truthy(held_at_call)
    /\ Positions("call_create") # {}
    /\ Positions("send_run") # {}
    /\ result.ok

\* C5: a run request is only ever sent with a non-null conversation_id; when
\* the implicit create_conversation leaves the client without one (also on a
\* 200 without conversation_id), run_app_api fails without sending it.
C5_RunNeedsConversation ==
    /\ \A i \in Positions("send_run") : trace[i].cid # None
    /\ (pc = "req" /\ url = "run") => conversation_id # None
    /\ (Returned("run") /\ ~Truthy(held_at_call) /\ ~Truthy(conversation_id)) =>
            (result = ResultNone /\ Positions("send_run") = {})

C5_Witness ==
    /\ Returned("run")
    /\ held_at_call = None
    /\ last.kind = "resp"
    /\ last.status = 200
    /\ last.body.json
    /\ last.body.conversation_id = None
    /\ result = ResultNone
    /\ Positions("send_run") = {}

C7_Original ==
    (mode # "api" /\ op = "create") => ~Truthy(held_at_call)

\* C7 amended: the resolver does not reuse the session. For every asset it
\* hands to the understanding service it calls create_conversation exactly
\* once, first of all its calls for the asset, also when the client holds a
\* conversation_id already; run_app_api never creates another one for it.
C7_FreshSessionPerAsset ==
    mode # "api" =>
        /\ rpc \in {"ciu_create", "ciu_upload", "ciu_run"} => trace # <<>>
        /\ trace # <<>> =>
            /\ trace[1].ev = "call_create"
            /\ Cardinality(Positions("call_create")) = 1
            /\ \A i \in 1..Len(trace) : trace[i].ref = cur

C7_Witness ==
    /\ mode = "inplace"
    /\ cur = 2
    /\ rpc = "ciu_run"
    /\ Truthy(held_at_call)
    /\ 1 \in resolved
    /\ Cardinality(Positions("call_create")) = 1
    /\ Positions("send_run") # {}

\* C8 as stated: a reference whose fetched asset is below min_size_kb * 1024
\* bytes is never the subject of a call to the understanding service and is
\* never substituted.
C8_Original ==
    mode # "api" =>
        /\ \A i \in 1..Len(trace) : assets[trace[i].ref].fetched >= min_size_kb * 1024
        /\ \A r \in resolved : assets[r].fetched >= min_size_kb * 1024

\* The loop of process_content is at a reference it has yet to look at.
LoopHasNext ==
    /\ mode # "api"
    /\ rpc = "loop"
    /\ idx <= (IF mode = "marker" THEN Len(saved_files) ELSE nrefs)
\* The staged file of reference r exists and is below the gate.
StagedSmall(a) == a.size > 0 /\ a.size < min_size_kb * 1024

\* C8 amended: in both modes the gate is on the staged file as it is when the
\* gate is reached (in marker mode after conversion, which may change its
\* size). A reference whose staged file is below min_size_kb * 1024 bytes is
\* the subject of no create, upload or run call and is not substituted; the
\* step that skips it leaves the run going, on the next reference.
C8_SizeGate ==
    /\ [](mode # "api" =>
            /\ \A i \in 1..Len(trace) : ~StagedSmall(assets[trace[i].ref])
            /\ \A r \in resolved : ~StagedSmall(assets[r]))
    /\ [][(LoopHasNext /\ StagedSmall(assets'[cur'])) =>
            /\ rpc' = "loop"
            /\ idx' = idx + 1
            /\ ret' = ret
            /\ resolved' = resolved
            /\ pc' = "idle"
            /\ trace' = <<>>]_vars

C8_Witness ==
    /\ mode = "marker"
    /\ nrefs = 2
    /\ saved_files = <<1, 2>>
    /\ assets[1] = Asset(10 * 1024, 10 * 1024)
    /\ resolved = {2}
    /\ ret = "content"

\* The result process_content is about to take holds a well-formed fenced
\* block without the configured validity key.
KeyMissing ==
    /\ mode = "marker"
    /\ rpc = "ciu_run"
    /\ pc = "idle"
    /\ valid_response_key # None
    /\ result.ok
    /\ result.payload.answer \in AnswerNames
    /\ AnswerTable[result.payload.answer].block = "map"
    /\ ~AnswerTable[result.payload.answer].haskey
\* process_content takes the result of _call_image_understanding.
TakesResult ==
    /\ mode = "marker"
    /\ pc = "idle"
    /\ \/ rpc = "ciu_run"
       \/ rpc = "ciu_upload" /\ rpc' # "ciu_run"

UpperChar(c) ==
    CASE c = "t" -> "T"
      [] c = "r" -> "R"
      [] c = "u" -> "U"
      [] c = "e" -> "E"
      [] c = "y" -> "Y"
      [] c = "s" -> "S"
      [] OTHER   -> c
SameWord(str, w) ==
    /\ Len(str) = Len(w)
    /\ \A i \in 1..Len(w) : str[i] \in {w[i], UpperChar(w[i])}

\* C10: a boolean flag passes through; a string is valid exactly when it is
\* one of true, yes, 1, t, y in any mix of cases; a flag of any other type
\* (0, 1, 3.5, None, a list, a map) is invalid. "Yes", "true", "1" and true
\* are valid; "no", 0, 3.5 and None are not.
C10_ValidityNormalization ==
    should_process # "unset" =>
        LET valid == should_process = "true"
        IN  /\ valid_flag.t = "bool" => valid = valid_flag.b
            /\ valid_flag.t = "str" =>
                    valid = \E w \in {<<"t", "r", "u", "e">>, <<"y", "e", "s">>, <<"1">>,
                                      <<"t">>, <<"y">>} : SameWord(valid_flag.s, w)
            /\ valid_flag.t \notin {"bool", "str"} => ~valid
            /\ valid_flag \in {FlagStr(<<"Y", "e", "s">>), FlagStr(<<"t", "r", "u", "e">>),
                               FlagStr(<<"1">>), FlagBool(TRUE)} => valid
            /\ valid_flag \in {FlagStr(<<"n", "o">>), FlagInt(0), FlagFloat, FlagNone} => ~valid

C10_Witness ==
    /\ valid_flag = FlagStr(<<"Y", "e", "s">>)
    /\ should_process = "true"

\* process_content is about to take the result for the next saved file.
TakesAnswer ==
    /\ mode = "marker"
    /\ rpc = "text"
    /\ idx <= Len(saved_files)
\* The text holds a marker of the image named n.
HoldsMarker(content, n) == \E i \in 1..Len(content) : content[i] = Marker(n)
\* The answer taken holds a well-formed fenced block.
Fenced(tk) == tk.ok /\ AnswerTable[tk.answer].block = "map"

\* C11 as stated: with no valid_response_key a successful answer of plain
\* text is substituted, with the prefix, wherever the text holds the marker of
\* its image.
C11_Original ==
    [][(TakesAnswer /\ valid_response_key = None
            /\ taken'.ok /\ taken'.answer = "plain" /\ taken'.esc = "none"
            /\ HoldsMarker(new_content, cur')) =>
        /\ Len(new_content') = Len(new_content)
        /\ \A i \in 1..Len(new_content) :
                new_content[i] = Marker(cur') => new_content'[i] = Description("plain", "none")]_vars

\* C11 amended: with no valid_response_key the validity is true, but the
\* answer is substituted only when it holds a well-formed fenced block: then
\* every marker of its image becomes prefix + answer (the answer as re.sub
\* expands it) and nothing else changes; a plain-text answer, or one whose
\* block does not parse, leaves the text as it was and the run going; an
\* answer re.sub rejects as a replacement ends the run with None. What the run
\* returns at its end is the content text.
C11_FenceStillRequired ==
    /\ [][(TakesAnswer /\ valid_response_key = None) =>
            IF taken'.ok /\ Fenced(taken') /\ taken'.esc # "rejected"
            THEN /\ Len(new_content') = Len(new_content)
                 /\ \A i \in 1..Len(new_content) :
                        new_content'[i] = IF new_content[i] = Marker(cur')
                                          THEN Description(taken'.answer, taken'.esc)
                                          ELSE new_content[i]
                 /\ rpc' = "text"
            ELSE IF taken'.ok /\ Fenced(taken')
            THEN new_content' = new_content /\ rpc' = "done" /\ ret' = "None"
            ELSE new_content' = new_content /\ rpc' = "text" /\ ret' = ret]_vars
    /\ [][(mode = "marker" /\ rpc = "text" /\ idx > Len(saved_files)) =>
            (ret' = "content" /\ new_content' = new_content)]_vars

C11_Witness ==
    /\ mode = "marker"
    /\ valid_response_key = None
    /\ org_content = <<Text, Marker(1)>>
    /\ saved_files = <<1>>
    /\ taken = Taken(TRUE, "nokey", "none")
    /\ new_content = <<Text, Description("nokey", "none")>>
    /\ ret = "content"

\* C12: in marker mode and in in-place mode alike, a reference is
\* substituted only if the answer holds a fenced block and the normalized
\* validity is true; otherwise it is left untouched. (Violated in in-place
\* mode, which substitutes every answer.)
C12_Original ==
    [][(mode # "api" /\ resolved' # resolved) => FencedAndValid(result, valid_response_key)]_vars

\* C13: in both modes a fetch failure, a normalize failure or a remote
\* failure for one reference leaves it unresolved and does not end the run:
\* the only step that ends a run over one or more references is the return
\* of the document after the last of them. (The contract violation of C9
\* and a rejected replacement text apart; violated in marker mode, where _download_images lets every
\* exception but RequestException through.)
C13_Original ==
    [][(mode # "api" /\ nrefs > 0 /\ rpc # "done" /\ rpc' = "done" /\
        verdict' \notin {"KeyError", "re.error"}) =>
            ret' = "content"]_vars

\* The places of the nodes below node, each as the child numbers leading to it.
RECURSIVE Places(_)
Places(node) ==
    UNION {{<<i>>} \cup {<<i>> \o q : q \in Places(node.kids[i].node)} : i \in 1..Len(node.kids)}
\* The place pos lies under a black-listed key of a dict, at some level.
UnderExcluded(doc, pos) ==
    \E k \in 1..Len(pos) :
        LET parent == NodeAt(doc, SubSeq(pos, 1, k - 1))
        IN  parent.t = "dict" /\ parent.kids[pos[k]].key \in process_black_key
\* The places of the str scalars of doc.
StrPlaces(doc) == {q \in Places(doc) : NodeAt(doc, q).t = "str"}
\* The places the entries of fields were found at.
FoundAt(fields) == {fields[i].pos : i \in 1..Len(fields)}
\* The places of set S in the order of a depth-first walk.
Before(q1, q2) ==
    \E k \in 1..Len(q1) :
        /\ k <= Len(q2)
        /\ SubSeq(q1, 1, k - 1) = SubSeq(q2, 1, k - 1)
        /\ q1[k] < q2[k]

\* C14: the traversal returns no value located under a black-listed key, at
\* any level, nor a value of a descendant of one; whether a str value under
\* other keys is returned does not depend on the black list: within the
\* depth bound it is returned exactly when it is not under a black-listed key.
C14_ExcludedKeys ==
    [][rpc = "tree" =>
        /\ \A i \in 1..Len(all_fields') : ~UnderExcluded(json_dict, all_fields'[i].pos)
        /\ \A q \in StrPlaces(json_dict) :
                Len(q) <= recursive_depth + 1 =>
                    (q \in FoundAt(all_fields') <=> ~UnderExcluded(json_dict, q))]_vars

C14_Witness ==
    /\ rpc = "tree_loop"
    /\ resolved = {}
    /\ idx = 1
    /\ json_dict = Dict(<<Entry(KeyA, Str("u1")),
                           Entry(KeyB, Dict(<<Entry(KeyA, Str("u2"))>>))>>)
    /\ process_black_key = {KeyB}
    /\ recursive_depth = 2
    /\ all_fields = <<Field(KeyA, "u1", <<1>>)>>

\* C15: the traversal returns exactly the str scalars, not under a
\* black-listed key, whose container is at depth max_depth or less, each once
\* with its own value, in depth-first order; a container one level deeper
\* gives no result and a warning, and what comes after it is still visited;
\* a scalar that is not a str is never returned.
C15_DepthBound ==
    [][rpc = "tree" =>
        /\ FoundAt(all_fields') =
                {q \in StrPlaces(json_dict) :
                    ~UnderExcluded(json_dict, q) /\ Len(q) <= recursive_depth + 1}
        /\ \A i \in 1..Len(all_fields') :
                /\ NodeAt(json_dict, all_fields'[i].pos) = Str(all_fields'[i].value)
                /\ \A j \in 1..Len(all_fields') :
                        i < j => Before(all_fields'[i].pos, all_fields'[j].pos)
        /\ warned' =
                {q \in Places(json_dict) :
                    /\ NodeAt(json_dict, q).t \in {"dict", "list"}
                    /\ ~UnderExcluded(json_dict, q)
                    /\ Len(q) = recursive_depth + 1}]_vars

C15_Witness ==
    /\ rpc = "tree_loop"
    /\ resolved = {}
    /\ idx = 1
    /\ json_dict = List(<<Item(List(<<Item(Str("u2"))>>)), Item(Str("u1"))>>)
    /\ recursive_depth = 0
    /\ all_fields = <<Field(<<"[", "1", "]">>, "u1", <<2>>)>>
    /\ warned = {<<1>>}

\* The reference the loop of process_content turns to next; nrefs + 1 after
\* the last.
NextRef ==
    IF mode = "inplace" THEN idx
    ELSE IF idx <= Len(saved_files) THEN saved_files[idx]
    ELSE nrefs + 1
\* Nothing was fetched for reference r: the request or the writing failed.
Torn(r) == assets[r].fetched = 0
\* _call_image_understanding is at work on the reference cur.
Understanding == rpc \in {"ciu_create", "ciu_upload", "ciu_run"}

C17_Original ==
    (mode # "api" /\ rpc = "done") =>
        /\ ret = "None" => (nrefs = 0 \/ verdict = "KeyError")
        /\ nrefs = 0 => (ret = "None" /\ trace = <<>> /\ resolved = {} /\ staged = {})

\* _convert_to_jpg is about to be applied to a file of a canonical format,
\* respectively of another format.
ConvertsCanonical ==
    /\ conversions < MaxConversions
    /\ source_file_path \in Paths
    /\ files[source_file_path] \in {"JPEG", "JPG", "PNG"}
ConvertsOther ==
    /\ conversions < MaxConversions
    /\ source_file_path \in Paths
    /\ files[source_file_path] \in FileFormats \ {"JPEG", "JPG", "PNG", "unknown"}

\* C18: on a file whose format is JPEG, JPG or PNG, _convert_to_jpg reports
\* success and returns the path it was given; the file is still there with
\* the same format, no other file is created or deleted; applied again, to
\* the path it returned, it returns the same once more.
C18_CanonicalNoop ==
    [][ConvertsCanonical =>
        /\ converted' = Return("True", source_file_path)
        /\ source_file_path' = source_file_path
        /\ files' = files
        /\ conversions >= 1 /\ converted.status = "True" => converted' = converted]_vars

C18_Witness ==
    /\ conversions = 2
    /\ source_file_path = Path("images", "k_1", "png")
    /\ files[source_file_path] = "PNG"
    /\ converted = Return("True", source_file_path)

\* C19: on a file of any other format, whatever its name (also one ending
\* in .jpg), a reported success comes with the path of an existing JPEG file
\* and with the original file gone; a failed conversion is reported as a
\* failure, without a path. (Violated: a source named as the target is
\* written and then removed; an exception that is not an IOError is raised.)
C19_Original ==
    [][ConvertsOther =>
        /\ converted'.status \in {"True", "False"}
        /\ converted'.status = "True" =>
                /\ converted'.path \in Paths
                /\ files'[converted'.path] = "JPEG"
                /\ converted'.path # source_file_path => files'[source_file_path] = "absent"
        /\ converted'.status = "False" => converted'.path = NoPath]_vars

\* pos is the place of a node of doc.
RECURSIVE ValidPlace(_, _)
ValidPlace(doc, pos) ==
    \/ pos = <<>>
    \/ /\ Head(pos) \in 1..Len(doc.kids)
       /\ ValidPlace(doc.kids[Head(pos)].node, Tail(pos))
\* doc with the node at place pos replaced by val, and nothing else changed.
RECURSIVE ReplaceAt(_, _, _)
ReplaceAt(doc, pos, val) ==
    IF pos = <<>> THEN val
    ELSE [doc EXCEPT !.kids[Head(pos)].node = ReplaceAt(@, Tail(pos), val)]
\* The in-place resolver writes an answer for the reference url_paths[idx].
WritesAnswer ==
    /\ mode = "inplace"
    /\ rpc = "tree_loop"
    /\ idx <= Len(url_paths)
    /\ verdict' = "substitute"
    /\ idx' = idx + 1

\* C20: in in-place mode, resolving the reference found at path P with the
\* answer A leaves the document as it was but for the scalar at P, which is
\* A: for paths through dicts and through lists and for keys holding '.' or
\* '['; no other value changes and no key is added. (Violated: the path is
\* walked as path.split('.') over dict keys.)
C20_Original ==
    [][WritesAnswer =>
        /\ ValidPlace(json_dict, url_paths[idx].pos)
        /\ \E answer \in Answers :
                json_dict' = ReplaceAt(json_dict, url_paths[idx].pos, Str(answer))]_vars

\* C21: the access paths one traversal returns tell the scalars apart: no two
\* located scalars at distinct places of the document have the same path,
\* also with keys that hold '.', '[' or ']' and with a list at the root.
\* (Violated: the path is one string, the keys joined by '.', the indices
\* written as '[i]', with nothing escaped.)
C21_Original ==
    rpc # "tree" =>
        \A i, j \in 1..Len(all_fields) :
            all_fields[i].pos # all_fields[j].pos => all_fields[i].path # all_fields[j].path

\* The places of the located strings that match the reference pattern.
Matching(fields) == {fields[i].pos : i \in {k \in 1..Len(fields) : _validate_url(fields[k].value)}}

\* C22: in in-place mode every located string that matches the reference
\* pattern is a reference of its own, at its own path, also when the same
\* string is found at several paths; so after a run in which every reference
\* was answered, no located place still holds a matching string. (Violated:
\* url_paths is keyed by the string and keeps one path for each.)
C22_Original ==
    (mode = "inplace" /\ rpc \in {"tree_loop", "done"}) =>
        /\ FoundAt(url_paths) = Matching(all_fields)
        /\ (rpc = "done" /\ ret = "content" /\ resolved = 1..Len(url_paths)) =>
                \A q \in Matching(all_fields) : ~_validate_url(NodeAt(json_dict, q).v)

\* _call_image_understanding issues the upload, respectively the run-query,
\* for the reference cur.
IssuesUpload == mode # "api" /\ rpc = "ciu_create" /\ rpc' = "ciu_upload"
IssuesRun == mode # "api" /\ rpc = "ciu_upload" /\ rpc' = "ciu_run"
\* upload_file has returned to _call_image_understanding, which goes on.
UploadReturned == mode # "api" /\ rpc = "ciu_upload" /\ rpc' # rpc

\* C23 as stated: an upload is issued only when create_conversation gave a
\* session for the asset, and a run-query only with the id a successful
\* upload of the asset returned.
C23_Original ==
    /\ [][IssuesUpload => Truthy(result.cid)]_vars
    /\ [][IssuesRun => (Truthy(result.fid) /\ file_arg' = result.fid)]_vars

\* C23 amended: for every asset the calls come in the order create, upload,
\* run. The upload is issued as soon as create_conversation has returned,
\* whether it gave a session or not, with whatever id the client then holds;
\* the run-query is issued only when create_conversation gave a session and
\* the upload gave an asset id, and it carries that id; when either failed, no
\* run-query is issued for the asset and its result is None.
C23_ProtocolOrder ==
    /\ [](mode # "api" =>
            /\ \A i \in Positions("call_upload") : \E j \in Positions("call_create") : j < i
            /\ \A i \in Positions("call_run") : \E j \in Positions("send_upload") : j < i
            /\ \A i \in Positions("send_run") :
                    /\ \E j \in Positions("call_run") : j < i
                    /\ trace[i].cid # None)
    /\ [][(mode # "api" /\ rpc = "ciu_create" /\ rpc' # rpc) =>
            (rpc' = "ciu_upload" /\ op' = "upload" /\ ciu_conversation_id' = result.cid)]_vars
    /\ [][UploadReturned =>
            IF Truthy(result.fid) /\ Truthy(ciu_conversation_id)
            THEN rpc' = "ciu_run" /\ op' = "run" /\ file_arg' = result.fid
            ELSE /\ rpc' = "loop"
                 /\ verdict' = "skip"
                 /\ resolved' = resolved
                 /\ pc' = "idle" /\ Positions("call_run") = {}]_vars

\* An upload has been sent for an asset whose create_conversation failed.
C23_Witness ==
    /\ mode = "marker"
    /\ rpc = "ciu_upload"
    /\ ~Truthy(ciu_conversation_id)
    /\ Positions("send_upload") # {}
    /\ result.fid # None
    /\ pc = "idle"

\* C24: in both modes the file handed to the understanding service has gone
\* through _convert_to_jpg with success, so that its detected format is JPEG,
\* JPG or PNG; a file whose format cannot be detected is never handed over.
\* (Violated in in-place mode, which stages the fetched bytes and uploads
\* them as they are.)
C24_Original ==
    (mode \in {"marker", "inplace"} /\ rpc = "understanding") =>
        /\ converted.status = "True"
        /\ converted.path = source_file_path
        /\ files[source_file_path] \in {"JPEG", "JPG", "PNG"}

\* C25: in a run of the in-place resolver the traversal is complete before
\* the document is first changed: the traversal step leaves the document as
\* it is; afterwards the located fields and the collected references stay
\* as they are; every change of the document is the assignment of an answer
\* along the path of the next collected reference, a matching string the
\* traversal found; each collected reference has one turn, so an answer
\* written into the document, also one that matches the reference pattern,
\* is never taken for a reference in the same run.
C25_TraverseThenMutate ==
    /\ [][(mode = "inplace" /\ rpc = "tree") =>
            /\ json_dict' = json_dict
            /\ all_fields' = _traverse_dict(json_dict, 0, <<>>, <<>>).results]_vars
    /\ [][(mode = "inplace" /\ rpc # "tree") =>
            (all_fields' = all_fields /\ url_paths' = url_paths)]_vars
    /\ [][(mode = "inplace" /\ json_dict' # json_dict) =>
            /\ rpc = "tree_loop"
            /\ idx \in 1..Len(url_paths)
            /\ idx' = idx + 1
            /\ \E i \in 1..Len(all_fields) :
                    /\ all_fields[i] = url_paths[idx]
                    /\ all_fields[i].value \in Urls
            /\ \E answer \in Answers :
                    json_dict' = SetAnswer(json_dict, url_paths[idx].path, answer)]_vars
    /\ []((mode = "inplace" /\ rpc \in {"tree_loop", "done"}) =>
            /\ idx \in 1..(Len(url_paths) + 1)
            /\ resolved \subseteq 1..(idx - 1))

\* A run is over in which the one reference found was answered with a text
\* that matches the reference pattern: the text is in the document.
C25_Witness ==
    /\ mode = "inplace"
    /\ rpc = "done"
    /\ ret = "content"
    /\ Len(url_paths) = 1
    /\ url_paths[1].value = "u1"
    /\ resolved = {1}
    /\ NodeAt(json_dict, url_paths[1].pos) = Str("u2")

\* The answer taken holds a well-formed fenced block and passes the validity
\* check of the configured key.
ValidAnswer(tk) ==
    /\ Fenced(tk)
    /\ valid_response_key # None =>
            /\ AnswerTable[tk.answer].haskey
            /\ NormalizeValidFlag(AnswerTable[tk.answer].flag)

\* C26: in marker mode, when the reference named K is resolved with a valid
\* answer A, every marker of K in the content text becomes the prefix
\* followed by A as it was returned, backslashes included, and the rest of
\* the text is left as it was. (Violated: the answer is the replacement
\* template of re.sub, which expands its backslash escapes or rejects them.)
C26_Original ==
    [][(TakesAnswer /\ ValidAnswer(taken')) =>
        /\ Len(new_content') = Len(new_content)
        /\ \A i \in 1..Len(new_content) :
                new_content'[i] = IF new_content[i] = Marker(cur')
                                  THEN Description(taken'.answer, "none")
                                  ELSE new_content[i]]_vars

\* C27: a create_conversation that returns None leaves self.conversation_id
\* as it was when it was called, whatever made it fail, and so does an
\* upload_file that returns (None, None). (Violated: a 200 whose body holds
\* no conversation_id is stored before it is returned.)
C27_Original ==
    /\ (Returned("create") /\ result.cid = None) => conversation_id = held_at_call
    /\ (Returned("upload") /\ result = ResultNone) => conversation_id = held_at_call

\* The content after the images named in sf were resolved one after the
\* other, each with its answer.
ResolvedInOrder(sf, content) ==
    LET Loop[i \in 0..Len(sf)] ==
            IF i = 0 THEN content
            ELSE ReSub(sf[i], DescriptionWith(answers[sf[i]].answer, "none", answers[sf[i]].holds),
                       Loop[i - 1])
    IN  Loop[Len(sf)]

\* C28: in marker mode the final text does not depend on the order in which
\* two images are resolved, and what was inserted for one of them is not
\* changed by the substitution for the other, also when the answer for one
\* holds the marker of the other. (Violated: each re.sub runs over the text
\* as the substitutions before it left it.)
C28_Original ==
    (mode = "marker" /\ rpc = "done" /\ answers # <<>>) =>
        /\ new_content = ResolvedInOrder(<<saved_files[2], saved_files[1]>>, org_content)
        /\ \A i \in 1..Len(new_content) : new_content[i].t # "altered"

=============================================================================
